---- MODULE Spec2Model ----
(***************************************************************************)
(* A model of docker-proxy (src/docker-proxy/main.go): the Director hook   *)
(* that rewrites Windows paths in "containers/create" payloads             *)
(* (modifyAndExtract, translateWinPath) and the port bridge it triggers    *)
(* (startForwarder: registry, listener, sessions, copy tasks).             *)
(*                                                                         *)
(* Strings are sequences of one-character strings.  A request body is a    *)
(* record [fmt, tree, raw]: fmt says how the bytes are written ("garbage": *)
(* not JSON, "scalar": JSON but not an object, "null": the JSON null,      *)
(* "canon": an object exactly as json.Marshal would write it, "loose": an  *)
(* object written any other way - spaces, key order, escapes), tree is the *)
(* object the bytes parse to and raw distinguishes unparseable bodies.     *)
(***************************************************************************)
EXTENDS Integers, Sequences, FiniteSets, TLC

(***************************************************************************)
(* Bounds of the model.                                                    *)
(***************************************************************************)
\* longest -base flag value drawn
MaxBaseLen == 2
\* longest free tail of a drawn bind / environment element
MaxTailLen == 3
\* most binding descriptors in one drawn payload
MaxDescriptors == 2
\* most startForwarder goroutines spawned in one behaviour
MaxCalls == 2
\* most connections accepted in one behaviour of Spec
MaxSessions == 2
\* most bytes either peer of the session writes in one behaviour of SpecRelay
MaxBytes == 2

(***************************************************************************)
(* Characters and strings.                                                 *)
(***************************************************************************)
BS == "\\"
NL == "\n"
Letters == {"c", "C", "k", "K"}
Char == {"c", ":", BS, "/", "=", NL}
BaseChar == {"c", ":", "/"}

\* all strings over alphabet A of length 0..n
RECURSIVE StrUpTo(_, _)
StrUpTo(A, n) ==
    IF n = 0 THEN {<<>>}
    ELSE LET shorter == StrUpTo(A, n - 1)
         IN  shorter \cup {Append(s, a) : s \in {t \in shorter : Len(t) = n - 1}, a \in A}

\* strings.ToUpper on one character of the model's alphabet
UpperChar(ch) == IF ch = "c" THEN "C" ELSE IF ch = "k" THEN "K" ELSE ch

ToUpper(s) == [i \in 1..Len(s) |-> UpperChar(s[i])]

\* strings.ReplaceAll(s, old, new) for one-character old and new
ReplaceAll(s, old, new) == [i \in 1..Len(s) |-> IF s[i] = old THEN new ELSE s[i]]

\* strings.HasSuffix(s, "/")
HasSuffixSlash(s) == Len(s) > 0 /\ s[Len(s)] = "/"

\* the part of s from position i on (<<>> when i is past the end)
From(s, i) == IF i > Len(s) THEN <<>> ELSE SubSeq(s, i, Len(s))

\* length of the longest prefix of s all of whose characters satisfy: not in Stop
RECURSIVE RunLen(_, _)
RunLen(s, Stop) ==
    IF s = <<>> \/ s[1] \in Stop THEN 0 ELSE 1 + RunLen(Tail(s), Stop)

MutTranslateKeepBackslash(basePath, drive, path) ==
    (IF HasSuffixSlash(basePath) THEN basePath ELSE Append(basePath, "/"))
        \o ToUpper(drive) \o <<"/">> \o path

\* translateWinPath(basePath, drive, path)
translateWinPath(basePath, drive, path) ==
    LET d == ToUpper(drive)
        p == ReplaceAll(path, BS, "/")
        b == IF ~HasSuffixSlash(basePath) THEN Append(basePath, "/") ELSE basePath
    IN  b \o d \o <<"/">> \o p

(***************************************************************************)
(* The two patterns.  A match is [ok, g1, g2, g3]; "." does not match a    *)
(* line feed, a negated class does, and neither pattern is anchored at the *)
(* end, so a match may stop before the end of the string.                  *)
(***************************************************************************)
NoMatch == [ok |-> FALSE, g1 |-> <<>>, g2 |-> <<>>, g3 |-> <<>>]

\* the pattern with its colon lost: ^([a-zA-Z])[\\/]
MutDrivePrefixNoColon(s) ==
    /\ Len(s) >= 2
    /\ s[1] \in Letters
    /\ s[2] \in {BS, "/"}

\* ^([a-zA-Z]):[\\/]  -  the prefix both patterns share
DrivePrefix(s) ==
    /\ Len(s) >= 3
    /\ s[1] \in Letters
    /\ s[2] = ":"
    /\ s[3] \in {BS, "/"}

\* bindRegex.FindStringSubmatch(s):  ^([a-zA-Z]):[\\/]([^:]+)(.*)
bindRegex(s) ==
    IF ~DrivePrefix(s) THEN NoMatch
    ELSE LET rest == From(s, 4)
             n2   == RunLen(rest, {":"})
             after == From(rest, n2 + 1)
             n3   == RunLen(after, {NL})
         IN  IF n2 = 0 THEN NoMatch
             ELSE [ok |-> TRUE, g1 |-> <<s[1]>>, g2 |-> SubSeq(rest, 1, n2),
                   g3 |-> SubSeq(after, 1, n3)]

\* envPathRegex.FindStringSubmatch(s):  ^([a-zA-Z]):[\\/](.*)
envPathRegex(s) ==
    IF ~DrivePrefix(s) THEN NoMatch
    ELSE LET rest == From(s, 4)
             n2   == RunLen(rest, {NL})
         IN  [ok |-> TRUE, g1 |-> <<s[1]>>, g2 |-> SubSeq(rest, 1, n2), g3 |-> <<>>]

\* strings.SplitN(s, "=", 2): <<s>> without "=", else <<before, after>> the first one
SplitN2(s) ==
    LET n == RunLen(s, {"="})
    IN  IF n = Len(s) THEN <<s>> ELSE <<SubSeq(s, 1, n), From(s, n + 2)>>

(***************************************************************************)
(* State.                                                                  *)
(***************************************************************************)
VARIABLES
    basePath,        \* the -base flag (main.go:49)
    stage,           \* "idle", "rewritten" (Director ran on a request), "resent"
    reqIn,           \* the request as it reached the Director
    reqOut,          \* the request as the Director left it for the transport
    modified,        \* modifyAndExtract's local flag at its return
    activeForwards,  \* the registry (main.go:30): the ports mapped to true
    forwardMutex,    \* 0 when unlocked, else the goroutine holding it
    fw,              \* startForwarder goroutines: sequence of [port, pc]
    portInUse,       \* local ports another program occupies
    sess             \* bridge sessions: one record per accepted connection

vars == <<basePath, stage, reqIn, reqOut, modified, activeForwards, forwardMutex,
          fw, portInUse, sess>>

hookVars == <<stage, reqIn, reqOut, modified>>

(***************************************************************************)
(* Payload trees: what json.Unmarshal leaves in containerMap.              *)
(*   list field: [kind: "absent" | "other" | "list", elems: Seq(Elem)]     *)
(*   Elem: [str: BOOLEAN, s: string]   (str = FALSE: not a JSON string)    *)
(*   PortBindings: [kind: "absent" | "other" | "map", lists: Seq(PList)]   *)
(*   PList: [kind: "other" | "list", descs: Seq(Desc)]                     *)
(*   Desc: [kind: "other" | "map", hp: "absent" | "other" | "str", port]   *)
(***************************************************************************)
Ports == {"80", "81"}

Absent == [kind |-> "absent", elems |-> <<>>]
NoPorts == [kind |-> "absent", lists |-> <<>>]
StrElem(s) == [str |-> TRUE, s |-> s]
NumElem == [str |-> FALSE, s |-> <<>>]
ListOf(es) == [kind |-> "list", elems |-> es]
Desc(p) == [kind |-> "map", hp |-> "str", port |-> p]
PortMap(ls) == [kind |-> "map", lists |-> ls]
PList(ds) == [kind |-> "list", descs |-> ds]

NilTree == [hc |-> "absent", binds |-> Absent, pb |-> NoPorts, env |-> Absent]
MkTree(hc, binds, pb, env) == [hc |-> hc, binds |-> binds, pb |-> pb, env |-> env]

\* a body of the model: how it is written, and what it parses to
JsonBody(fmt, tree) == [fmt |-> fmt, tree |-> tree, raw |-> 0]
Garbage(n) == [fmt |-> "garbage", tree |-> NilTree, raw |-> n]
Scalar(n) == [fmt |-> "scalar", tree |-> NilTree, raw |-> n]
NullBody == [fmt |-> "null", tree |-> NilTree, raw |-> 0]
NoBytes == Garbage(0)

RECURSIVE ElemsLen(_)
ElemsLen(es) == IF es = <<>> THEN 0 ELSE 1 + Len(es[1].s) + ElemsLen(Tail(es))

RECURSIVE DescCount(_)
DescCount(ls) == IF ls = <<>> THEN 0 ELSE 1 + Len(ls[1].descs) + DescCount(Tail(ls))

\* len(bytes): the number of bytes of a body
ByteLen(b) ==
    CASE b.fmt \in {"garbage", "scalar"} -> b.raw
      [] b.fmt = "null" -> 4
      [] OTHER -> 2 + ElemsLen(b.tree.binds.elems) + ElemsLen(b.tree.env.elems)
                    + DescCount(b.tree.pb.lists)
                    + (IF b.fmt = "loose" THEN 1 ELSE 0)

\* json.Unmarshal(bodyBytes, &containerMap): [err, containerMap]
Unmarshal(b) ==
    IF b.fmt \in {"garbage", "scalar"} THEN [err |-> TRUE, containerMap |-> NilTree]
    ELSE IF b.fmt = "null" THEN [err |-> FALSE, containerMap |-> NilTree]
    ELSE [err |-> FALSE, containerMap |-> b.tree]

\* json.Marshal(containerMap): one fixed way of writing the tree
Marshal(tree) == JsonBody("canon", tree)

(***************************************************************************)
(* modifyAndExtract, main.go:96-177.                                       *)
(***************************************************************************)
\* main.go:122-128, one element of Binds: [elem, hit]
RewriteBind(base, e) ==
    IF ~e.str THEN [elem |-> e, hit |-> FALSE]
    ELSE LET match == bindRegex(e.s)
         IN  IF ~match.ok THEN [elem |-> e, hit |-> FALSE]
             ELSE [elem |-> StrElem(translateWinPath(base, match.g1, match.g2) \o match.g3),
                   hit |-> TRUE]

\* main.go:152-160, one element of Env: [elem, hit]
RewriteEnv(base, e) ==
    IF ~e.str THEN [elem |-> e, hit |-> FALSE]
    ELSE LET kv == SplitN2(e.s)
         IN  IF Len(kv) = 2 /\ envPathRegex(kv[2]).ok
             THEN LET match == envPathRegex(kv[2])
                  IN  [elem |-> StrElem(kv[1] \o <<"=">>
                                        \o translateWinPath(base, match.g1, match.g2)),
                       hit |-> TRUE]
             ELSE [elem |-> e, hit |-> FALSE]

\* a walk of the descriptors that reports each host port once
RECURSIVE MutDescPortsOnce(_)
MutDescPortsOnce(ds) ==
    IF ds = <<>> THEN <<>>
    ELSE LET rest == MutDescPortsOnce(Tail(ds))
         IN  IF /\ ds[1].kind = "map" /\ ds[1].hp = "str"
                /\ ~\E k \in DOMAIN rest : rest[k] = ds[1].port
             THEN <<ds[1].port>> \o rest
             ELSE rest

\* main.go:139-141, the ports of one list of binding descriptors, in order
RECURSIVE DescPorts(_)
DescPorts(ds) ==
    IF ds = <<>> THEN <<>>
    ELSE (IF ds[1].kind = "map" /\ ds[1].hp = "str" THEN <<ds[1].port>> ELSE <<>>)
         \o DescPorts(Tail(ds))

\* main.go:134-146, the port of every go startForwarder(hostPort, targetIP)
RECURSIVE ListPorts(_)
ListPorts(ls) ==
    IF ls = <<>> THEN <<>>
    ELSE (IF ls[1].kind = "list" THEN DescPorts(ls[1].descs) ELSE <<>>)
         \o ListPorts(Tail(ls))

\* main.go:115-172 on a parsed tree: [tree, modified, ports]
RewriteTree(base, t) ==
    LET hcOk    == t.hc = "obj"
        bindsOk == hcOk /\ t.binds.kind = "list"
        pbOk    == hcOk /\ t.pb.kind = "map"
        envOk   == t.env.kind = "list"
        nb == [i \in 1..Len(t.binds.elems) |-> RewriteBind(base, t.binds.elems[i])]
        ne == [i \in 1..Len(t.env.elems) |-> RewriteEnv(base, t.env.elems[i])]
        binds2 == IF bindsOk
                  THEN ListOf([i \in 1..Len(nb) |-> nb[i].elem]) ELSE t.binds
        env2   == IF envOk
                  THEN ListOf([i \in 1..Len(ne) |-> ne[i].elem]) ELSE t.env
    IN  [tree     |-> [t EXCEPT !.binds = binds2, !.env = env2],
         modified |-> \/ (bindsOk /\ \E i \in 1..Len(nb) : nb[i].hit)
                      \/ (envOk /\ \E i \in 1..Len(ne) : ne[i].hit),
         ports    |-> IF pbOk THEN ListPorts(t.pb.lists) ELSE <<>>]

(***************************************************************************)
(* A request: [create, body, bytes, readErr, ContentLength].               *)
(*   create: method is POST and the path contains "/containers/create"     *)
(*   body: "nil" (nil or http.NoBody), "stream" (the client's unread       *)
(*         body), "broken" (a stream whose read failed part-way),          *)
(*         "buffer" (a fresh buffer holding bytes)                         *)
(***************************************************************************)
Request(create, b, cl) ==
    [create |-> create, body |-> "stream", bytes |-> b, readErr |-> FALSE,
     ContentLength |-> cl]
NoReq == [create |-> FALSE, body |-> "nil", bytes |-> NoBytes, readErr |-> FALSE,
          ContentLength |-> 0]

\* modifyAndExtract that forgets to put an unparseable body back (line 111)
MutNoRestore(req, base) ==
    IF req.body = "nil" THEN [req |-> req, modified |-> FALSE, ports |-> <<>>]
    ELSE LET parsed == Unmarshal(req.bytes)
             r == RewriteTree(base, parsed.containerMap)
             finalBytes == IF r.modified THEN Marshal(r.tree) ELSE req.bytes
         IN  IF parsed.err
             THEN [req |-> [req EXCEPT !.body = "buffer", !.bytes = NoBytes],
                   modified |-> FALSE, ports |-> <<>>]
             ELSE [req |-> [req EXCEPT !.body = "buffer", !.bytes = finalBytes,
                                       !.ContentLength = ByteLen(finalBytes)],
                   modified |-> r.modified, ports |-> r.ports]

\* modifyAndExtract that re-serializes whether or not anything changed
MutAlwaysMarshal(req, base) ==
    IF req.body = "nil" THEN [req |-> req, modified |-> FALSE, ports |-> <<>>]
    ELSE LET parsed == Unmarshal(req.bytes)
             r == RewriteTree(base, parsed.containerMap)
             finalBytes == Marshal(r.tree)
         IN  IF parsed.err
             THEN [req |-> [req EXCEPT !.body = "buffer"],
                   modified |-> FALSE, ports |-> <<>>]
             ELSE [req |-> [req EXCEPT !.body = "buffer", !.bytes = finalBytes,
                                       !.ContentLength = ByteLen(finalBytes)],
                   modified |-> r.modified, ports |-> r.ports]

\* modifyAndExtract that replaces the body and leaves the length as it was (line 176)
MutStaleLength(req, base) ==
    IF req.body = "nil" THEN [req |-> req, modified |-> FALSE, ports |-> <<>>]
    ELSE IF req.readErr
    THEN [req |-> [req EXCEPT !.body = "broken"], modified |-> FALSE, ports |-> <<>>]
    ELSE LET parsed == Unmarshal(req.bytes)
             r == RewriteTree(base, parsed.containerMap)
             finalBytes == IF r.modified THEN Marshal(r.tree) ELSE req.bytes
         IN  IF parsed.err
             THEN [req |-> [req EXCEPT !.body = "buffer"],
                   modified |-> FALSE, ports |-> <<>>]
             ELSE [req |-> [req EXCEPT !.body = "buffer", !.bytes = finalBytes],
                   modified |-> r.modified, ports |-> r.ports]

\* modifyAndExtract(req, basePath, targetIP): [req, modified, ports]
modifyAndExtract(req, base) ==
    IF req.body = "nil" THEN [req |-> req, modified |-> FALSE, ports |-> <<>>]
    ELSE IF req.readErr
    THEN [req |-> [req EXCEPT !.body = "broken"], modified |-> FALSE, ports |-> <<>>]
    ELSE LET bodyBytes == req.bytes
             parsed == Unmarshal(bodyBytes)
             r == RewriteTree(base, parsed.containerMap)
             finalBytes == IF r.modified THEN Marshal(r.tree) ELSE bodyBytes
         IN  IF parsed.err
             THEN [req |-> [req EXCEPT !.body = "buffer"],
                   modified |-> FALSE, ports |-> <<>>]
             ELSE [req |-> [req EXCEPT !.body = "buffer", !.bytes = finalBytes,
                                       !.ContentLength = ByteLen(finalBytes)],
                   modified |-> r.modified, ports |-> r.ports]

\* the Director of main.go:71-80 on one request
DirectorResult(req, base) ==
    IF req.create THEN modifyAndExtract(req, base)
    ELSE [req |-> req, modified |-> FALSE, ports |-> <<>>]

\* go startForwarder(hostPort, targetIP), main.go:140: the new goroutines
Spawn(ports) == [i \in 1..Len(ports) |-> [port |-> ports[i], pc |-> "lock"]]

(***************************************************************************)
(* The requests drawn.                                                     *)
(***************************************************************************)
DrivePrefixes == {<<"c", ":", BS>>, <<"C", ":", "/">>}
Tails == StrUpTo(Char, MaxTailLen)
Elems == Tails \cup {pre \o t : pre \in DrivePrefixes, t \in Tails}
EnvElems == Elems \cup {<<"k", "=">> \o e : e \in Elems}
Bases == StrUpTo(BaseChar, MaxBaseLen) \ {<<>>}

PortSeqs == UNION {[1..n -> Ports] : n \in 0..MaxDescriptors}
PortTree(ps) ==
    MkTree("obj", Absent, PortMap(<<PList([i \in 1..Len(ps) |-> Desc(ps[i])])>>), Absent)

\* one bind element, one environment element
BindTrees == {MkTree("obj", ListOf(<<StrElem(e)>>), NoPorts, Absent) : e \in Elems}
EnvTrees == {MkTree("absent", Absent, NoPorts, ListOf(<<StrElem(e)>>)) : e \in EnvElems}

WinBind == <<"c", ":", BS, "c", ":", "/", "c">>
WinEnv == <<"k", "=", "C", ":", "/", "c", BS, "c">>
Plain == <<"/", "c">>
OddDescs == <<[kind |-> "other", hp |-> "absent", port |-> "80"],
              [kind |-> "map", hp |-> "absent", port |-> "80"],
              [kind |-> "map", hp |-> "other", port |-> "80"],
              Desc("81")>>

\* shapes the single-element trees miss: mixed lists, wrong types, all fields at once
ShapeTrees ==
    { MkTree("obj", ListOf(<<StrElem(Plain), NumElem, StrElem(WinBind)>>), NoPorts, Absent),
      MkTree("obj", ListOf(<<StrElem(WinBind)>>), PortMap(<<PList(<<Desc("80")>>)>>),
             ListOf(<<StrElem(WinEnv)>>)),
      MkTree("obj", ListOf(<<StrElem(Plain)>>), PortMap(<<PList(<<Desc("80"), Desc("80")>>)>>),
             ListOf(<<StrElem(Plain)>>)),
      MkTree("other", ListOf(<<StrElem(WinBind)>>), PortMap(<<PList(<<Desc("80")>>)>>),
             ListOf(<<NumElem, StrElem(WinEnv)>>)),
      MkTree("absent", Absent, NoPorts, ListOf(<<StrElem(WinEnv), StrElem(Plain)>>)),
      MkTree("obj", [kind |-> "other", elems |-> <<StrElem(WinBind)>>],
             [kind |-> "other", lists |-> <<PList(<<Desc("80")>>)>>],
             [kind |-> "other", elems |-> <<StrElem(WinEnv)>>]),
      MkTree("obj", Absent,
             PortMap(<<[kind |-> "other", descs |-> <<Desc("80")>>], PList(OddDescs)>>),
             Absent),
      NilTree }
    \cup {PortTree(ps) : ps \in PortSeqs}

JsonBodies == {JsonBody("loose", t) : t \in BindTrees \cup EnvTrees \cup ShapeTrees}
              \cup {JsonBody("canon", t) : t \in ShapeTrees}
BadBodies == {Garbage(1), Garbage(2), Scalar(1), NullBody}

\* the requests SpecRewrite draws.  A request declares the length of its body
\* (Content-Length) or none (chunked, ContentLength -1); a body shorter or longer
\* than the length declared cannot be read to its end without an error
RewriteRequests ==
    {Request(TRUE, b, ByteLen(b)) : b \in JsonBodies \cup BadBodies}
    \cup {Request(TRUE, b, -1) : b \in BadBodies}
    \cup {Request(c, JsonBody("loose", t),
                   IF declared THEN ByteLen(JsonBody("loose", t)) ELSE -1) :
              c \in BOOLEAN, t \in ShapeTrees, declared \in BOOLEAN}
    \cup {[Request(TRUE, JsonBody("loose", t), 3) EXCEPT !.readErr = TRUE] : t \in ShapeTrees}
    \cup {[NoReq EXCEPT !.create = TRUE]}

\* the requests Spec draws: the payloads that only declare ports
BridgeRequests ==
    {Request(TRUE, JsonBody("canon", PortTree(ps)), ByteLen(JsonBody("canon", PortTree(ps)))) :
        ps \in PortSeqs \ {<<>>}}

(***************************************************************************)
(* The hook's actions.                                                     *)
(***************************************************************************)
\* main.go:71-80: the Director handles request r and spawns its forwarders
Director(r) ==
    /\ stage = "idle"
    /\ LET res == DirectorResult(r, basePath)
       IN  /\ Len(fw) + Len(res.ports) <= MaxCalls
           /\ reqIn' = r
           /\ reqOut' = res.req
           /\ modified' = res.modified
           /\ fw' = fw \o Spawn(res.ports)
    /\ stage' = "rewritten"
    /\ UNCHANGED <<basePath, activeForwards, forwardMutex, portInUse, sess>>

\* the client sends the body the proxy produced as a new create request
Resend ==
    /\ stage = "rewritten"
    /\ reqOut.body = "buffer"
    /\ LET r == [reqOut EXCEPT !.body = "stream", !.create = TRUE]
           res == DirectorResult(r, basePath)
       IN  /\ Len(fw) + Len(res.ports) <= MaxCalls
           /\ reqIn' = r
           /\ reqOut' = res.req
           /\ modified' = res.modified
           /\ fw' = fw \o Spawn(res.ports)
    /\ stage' = "resent"
    /\ UNCHANGED <<basePath, activeForwards, forwardMutex, portInUse, sess>>

\* a transport that holds the request until every forwarder has settled
MutForwardAfterBind ==
    /\ stage \in {"rewritten", "resent"}
    /\ \A g \in 1..Len(fw) : fw[g].pc \in {"returned", "abandoned", "accept"}
    /\ stage' = "idle"
    /\ reqIn' = NoReq
    /\ reqOut' = NoReq
    /\ modified' = FALSE
    /\ UNCHANGED <<basePath, activeForwards, forwardMutex, fw, portInUse, sess>>

\* the transport sends the request on (main.go:81); the hook is free again
Forward ==
    /\ stage \in {"rewritten", "resent"}
    /\ stage' = "idle"
    /\ reqIn' = NoReq
    /\ reqOut' = NoReq
    /\ modified' = FALSE
    /\ UNCHANGED <<basePath, activeForwards, forwardMutex, fw, portInUse, sess>>

InitBridge ==
    /\ stage = "idle"
    /\ reqIn = NoReq
    /\ reqOut = NoReq
    /\ modified = FALSE
    /\ activeForwards = {}
    /\ forwardMutex = 0
    /\ fw = <<>>
    /\ portInUse \in SUBSET Ports
    /\ sess = <<>>

InitRewrite ==
    /\ basePath \in Bases
    /\ InitBridge
    /\ portInUse = {}

\* a create request arrives; SpecRewrite follows the hook until a request has
\* spawned forwarders
RewriteRequest ==
    /\ stage = "idle"
    /\ fw = <<>>
    /\ \E r \in RewriteRequests : Director(r)

NextRewrite ==
    \/ RewriteRequest
    \/ Resend
    \/ Forward

SpecRewrite == InitRewrite /\ [][NextRewrite]_vars

(***************************************************************************)
(* startForwarder, main.go:180-216.  Goroutine g is fw[g] = [port, pc]:    *)
(*   "lock"     before forwardMutex.Lock()            (181)                *)
(*   "check"    holding the lock, before the test     (182)                *)
(*   "unlockRet" port already active, before Unlock   (183)                *)
(*   "returned" returned as a no-op                   (184)                *)
(*   "set"      before activeForwards[port] = true    (186)                *)
(*   "unlock"   before forwardMutex.Unlock()          (187)                *)
(*   "listen"   before net.Listen                     (192)                *)
(*   "abandoned" bind failed, returned                (195)                *)
(*   "accept"   bound, in the accept loop             (199-215)            *)
(***************************************************************************)
Goroutines == 1..Len(fw)

\* our own listener holds local port p
Bound(p) == \E g \in Goroutines : fw[g].port = p /\ fw[g].pc = "accept"

\* a Lock that does not wait for the holder
MutLockNoWait(g) ==
    /\ fw[g].pc = "lock"
    /\ forwardMutex' = g
    /\ fw' = [fw EXCEPT ![g].pc = "check"]
    /\ UNCHANGED <<basePath, hookVars, activeForwards, portInUse, sess>>

\* forwardMutex.Lock(), line 181
Lock(g) ==
    /\ fw[g].pc = "lock"
    /\ forwardMutex = 0
    /\ forwardMutex' = g
    /\ fw' = [fw EXCEPT ![g].pc = "check"]
    /\ UNCHANGED <<basePath, hookVars, activeForwards, portInUse, sess>>

\* if activeForwards[port], line 182
Check(g) ==
    /\ fw[g].pc = "check"
    /\ fw' = [fw EXCEPT ![g].pc =
                 IF fw[g].port \in activeForwards THEN "unlockRet" ELSE "set"]
    /\ UNCHANGED <<basePath, hookVars, activeForwards, forwardMutex, portInUse, sess>>

\* the already-member path returning with the lock still held
MutReturnLocked(g) ==
    /\ fw[g].pc = "unlockRet"
    /\ fw' = [fw EXCEPT ![g].pc = "returned"]
    /\ UNCHANGED <<basePath, hookVars, activeForwards, forwardMutex, portInUse, sess>>

\* forwardMutex.Unlock(); return, lines 183-184
UnlockReturn(g) ==
    /\ fw[g].pc = "unlockRet"
    /\ forwardMutex' = 0
    /\ fw' = [fw EXCEPT ![g].pc = "returned"]
    /\ UNCHANGED <<basePath, hookVars, activeForwards, portInUse, sess>>

\* activeForwards[port] = true, line 186
Set(g) ==
    /\ fw[g].pc = "set"
    /\ activeForwards' = activeForwards \cup {fw[g].port}
    /\ fw' = [fw EXCEPT ![g].pc = "unlock"]
    /\ UNCHANGED <<basePath, hookVars, forwardMutex, portInUse, sess>>

\* a forwarder that registers its port, unlocks, and returns without binding
MutUnlockGiveUp(g) ==
    /\ fw[g].pc = "unlock"
    /\ forwardMutex' = 0
    /\ fw' = [fw EXCEPT ![g].pc = "returned"]
    /\ UNCHANGED <<basePath, hookVars, activeForwards, portInUse, sess>>

\* forwardMutex.Unlock(), line 187
Unlock(g) ==
    /\ fw[g].pc = "unlock"
    /\ forwardMutex' = 0
    /\ fw' = [fw EXCEPT ![g].pc = "listen"]
    /\ UNCHANGED <<basePath, hookVars, activeForwards, portInUse, sess>>

\* a failed bind that takes the port out of the registry again
MutListenForget(g) ==
    /\ fw[g].pc = "listen"
    /\ IF fw[g].port \in portInUse \/ Bound(fw[g].port)
       THEN /\ fw' = [fw EXCEPT ![g].pc = "abandoned"]
            /\ activeForwards' = activeForwards \ {fw[g].port}
       ELSE /\ fw' = [fw EXCEPT ![g].pc = "accept"]
            /\ UNCHANGED activeForwards
    /\ UNCHANGED <<basePath, hookVars, forwardMutex, portInUse, sess>>

\* net.Listen("tcp", localAddr), lines 192-197: fails when the port is taken
Listen(g) ==
    /\ fw[g].pc = "listen"
    /\ fw' = [fw EXCEPT ![g].pc =
                 IF fw[g].port \in portInUse \/ Bound(fw[g].port)
                 THEN "abandoned" ELSE "accept"]
    /\ UNCHANGED <<basePath, hookVars, activeForwards, forwardMutex, portInUse, sess>>

\* another program takes, or gives up, a local port nobody holds
OccupyPort(p) ==
    /\ p \notin portInUse
    /\ ~Bound(p)
    /\ portInUse' = portInUse \cup {p}
    /\ UNCHANGED <<basePath, hookVars, activeForwards, forwardMutex, fw, sess>>

ReleasePort(p) ==
    /\ p \in portInUse
    /\ portInUse' = portInUse \ {p}
    /\ UNCHANGED <<basePath, hookVars, activeForwards, forwardMutex, fw, sess>>

(***************************************************************************)
(* Sessions, main.go:203-214.  A session is                                *)
(*   [port, pc, dial, dials, cOpen, sOpen, up, down]                       *)
(* pc: "dial" (205), "wait" (<-done, 213), "closeS" and "closeC" (the      *)
(* deferred s.Close() and c.Close()), "done".  dial: "pending", "ok" or    *)
(* "failed"; dials: the dials made.  cOpen / sOpen: the proxy's handle on  *)
(* the client / remote connection is open.  up is the direction            *)
(* client -> remote (io.Copy(s, c), 211), down the other (io.Copy(c, s),   *)
(* 212); a direction is [task, w, q, buf, got, eof]:                       *)
(*   task: "none", "read" (in Read), "write" (in Write), "send" (at        *)
(*         done <- true), "exit"                                           *)
(*   w: bytes the source peer has written; its k-th byte is the number k   *)
(*   q: bytes written that io.Copy has not read;  buf: the chunk it holds  *)
(*   got: bytes that reached the destination peer                          *)
(*   eof: the source peer has closed its sending side                      *)
(***************************************************************************)
NewDir == [task |-> "none", w |-> 0, q |-> <<>>, buf |-> <<>>, got |-> <<>>,
           eof |-> FALSE]

NewSession(p) == [port |-> p, pc |-> "dial", dial |-> "pending", dials |-> 0,
                  cOpen |-> TRUE, sOpen |-> FALSE, up |-> NewDir, down |-> NewDir]

Sessions == 1..Len(sess)
Dirs == {"up", "down"}

\* the proxy's handle on the connection direction d reads from / writes to
SrcOpen(s, d) == IF d = "up" THEN s.cOpen ELSE s.sOpen
DstOpen(s, d) == IF d = "up" THEN s.sOpen ELSE s.cOpen

\* l.Accept() returns a connection; go func(c) starts its session, lines 200-203
Accept(g) ==
    /\ fw[g].pc = "accept"
    /\ Len(sess) < MaxSessions
    /\ sess' = Append(sess, NewSession(fw[g].port))
    /\ UNCHANGED <<basePath, hookVars, activeForwards, forwardMutex, fw, portInUse>>

\* an accept error that ends the loop
MutAcceptErrorReturn(g) ==
    /\ fw[g].pc = "accept"
    /\ fw' = [fw EXCEPT ![g].pc = "abandoned"]
    /\ UNCHANGED <<basePath, hookVars, activeForwards, forwardMutex, portInUse, sess>>

\* l.Accept() returns an error; continue, line 201
AcceptError(g) ==
    /\ fw[g].pc = "accept"
    /\ UNCHANGED vars

\* a session that does not wait on done: the deferred closes run at once
MutDialNoWait(i) ==
    /\ sess[i].pc = "dial"
    /\ sess' = [sess EXCEPT ![i].pc = "closeS", ![i].dial = "ok", ![i].dials = @ + 1,
                            ![i].sOpen = TRUE,
                            ![i].up.task = "read", ![i].down.task = "read"]
    /\ UNCHANGED <<basePath, hookVars, activeForwards, forwardMutex, fw, portInUse>>

\* net.DialTimeout succeeds; both copy tasks start; the session waits, 205-213
DialOK(i) ==
    /\ sess[i].pc = "dial"
    /\ sess' = [sess EXCEPT ![i].pc = "wait", ![i].dial = "ok", ![i].dials = @ + 1,
                            ![i].sOpen = TRUE,
                            ![i].up.task = "read", ![i].down.task = "read"]
    /\ UNCHANGED <<basePath, hookVars, activeForwards, forwardMutex, fw, portInUse>>

\* a failed dial that takes the port out of the registry
MutDialFailUnregister(i) ==
    /\ sess[i].pc = "dial"
    /\ sess' = [sess EXCEPT ![i].pc = "closeC", ![i].dial = "failed", ![i].dials = @ + 1]
    /\ activeForwards' = activeForwards \ {sess[i].port}
    /\ UNCHANGED <<basePath, hookVars, forwardMutex, fw, portInUse>>

\* a failed dial that is tried again
MutDialRetry(i) ==
    /\ sess[i].pc = "dial"
    /\ sess' = [sess EXCEPT ![i].dial = "failed", ![i].dials = @ + 1,
                            ![i].pc = IF sess[i].dials = 0 THEN "dial" ELSE "closeC"]
    /\ UNCHANGED <<basePath, hookVars, activeForwards, forwardMutex, fw, portInUse>>

\* net.DialTimeout fails; return, line 206: only the deferred c.Close() is left
DialFail(i) ==
    /\ sess[i].pc = "dial"
    /\ sess' = [sess EXCEPT ![i].pc = "closeC", ![i].dial = "failed", ![i].dials = @ + 1]
    /\ UNCHANGED <<basePath, hookVars, activeForwards, forwardMutex, fw, portInUse>>

\* the record of direction d of session i, and the session with it replaced
Other(d) == IF d = "up" THEN "down" ELSE "up"
Dir(i, d) == IF d = "up" THEN sess[i].up ELSE sess[i].down
WithDir(i, d, r) == IF d = "up" THEN [sess EXCEPT ![i].up = r]
                    ELSE [sess EXCEPT ![i].down = r]

\* a Read that hands io.Copy the newest bytes first
MutCopyReadReversed(i, d) ==
    /\ Dir(i, d).task = "read"
    /\ SrcOpen(sess[i], d)
    /\ Dir(i, d).q # <<>>
    /\ LET x == Dir(i, d)
           n == Len(x.q)
       IN  sess' = WithDir(i, d, [x EXCEPT !.task = "write",
                                           !.buf = [k \in 1..n |-> x.q[n + 1 - k]],
                                           !.q = <<>>])
    /\ UNCHANGED <<basePath, hookVars, activeForwards, forwardMutex, fw, portInUse>>

\* io.Copy's Read on the source, lines 211-212: an error when the proxy has closed
\* the source, else a chunk of what is queued, else EOF once the peer has closed
CopyRead(i, d) ==
    /\ Dir(i, d).task = "read"
    /\ LET x == Dir(i, d)
       IN  IF ~SrcOpen(sess[i], d)
           THEN sess' = WithDir(i, d, [x EXCEPT !.task = "send"])
           ELSE IF x.q # <<>>
           THEN \E k \in 1..Len(x.q) :
                    sess' = WithDir(i, d, [x EXCEPT !.task = "write",
                                                    !.buf = SubSeq(x.q, 1, k),
                                                    !.q = From(x.q, k + 1)])
           ELSE /\ x.eof
                /\ sess' = WithDir(i, d, [x EXCEPT !.task = "send"])
    /\ UNCHANGED <<basePath, hookVars, activeForwards, forwardMutex, fw, portInUse>>

\* io.Copy's Write of the chunk to the destination: an error, the chunk lost, when
\* the proxy has closed the destination, and possibly when the destination peer
\* has closed (it may have closed for reading too)
CopyWrite(i, d) ==
    /\ Dir(i, d).task = "write"
    /\ LET x == Dir(i, d)
           peerGone == Dir(i, Other(d)).eof
       IN  \E fails \in {~DstOpen(sess[i], d)} \cup (IF peerGone THEN {TRUE} ELSE {}) :
               IF fails
               THEN sess' = WithDir(i, d, [x EXCEPT !.task = "send", !.buf = <<>>])
               ELSE sess' = WithDir(i, d, [x EXCEPT !.task = "read", !.buf = <<>>,
                                                    !.got = x.got \o x.buf])
    /\ UNCHANGED <<basePath, hookVars, activeForwards, forwardMutex, fw, portInUse>>

\* done <- true meets <-done, lines 211-213: the channel is unbuffered, so the send
\* completes only with the session's single receive
Rendezvous(i, d) ==
    /\ Dir(i, d).task = "send"
    /\ sess[i].pc = "wait"
    /\ sess' = [WithDir(i, d, [Dir(i, d) EXCEPT !.task = "exit"]) EXCEPT ![i].pc = "closeS"]
    /\ UNCHANGED <<basePath, hookVars, activeForwards, forwardMutex, fw, portInUse>>

\* the deferred s.Close(), line 207
CloseS(i) ==
    /\ sess[i].pc = "closeS"
    /\ sess' = [sess EXCEPT ![i].pc = "closeC", ![i].sOpen = FALSE]
    /\ UNCHANGED <<basePath, hookVars, activeForwards, forwardMutex, fw, portInUse>>

\* the deferred c.Close(), line 204; the session goroutine is gone
CloseC(i) ==
    /\ sess[i].pc = "closeC"
    /\ sess' = [sess EXCEPT ![i].pc = "done", ![i].cOpen = FALSE]
    /\ UNCHANGED <<basePath, hookVars, activeForwards, forwardMutex, fw, portInUse>>

\* the source peer of direction d closes its sending side
PeerClose(i, d) ==
    /\ ~Dir(i, d).eof
    /\ SrcOpen(sess[i], d)
    /\ sess' = WithDir(i, d, [Dir(i, d) EXCEPT !.eof = TRUE])
    /\ UNCHANGED <<basePath, hookVars, activeForwards, forwardMutex, fw, portInUse>>

\* the source peer of direction d writes its next byte
PeerWrite(i, d) ==
    /\ ~Dir(i, d).eof
    /\ Dir(i, d).w < MaxBytes
    /\ SrcOpen(sess[i], d)
    /\ sess' = WithDir(i, d, [Dir(i, d) EXCEPT !.w = @ + 1, !.q = Append(@, Dir(i, d).w + 1)])
    /\ UNCHANGED <<basePath, hookVars, activeForwards, forwardMutex, fw, portInUse>>

(***************************************************************************)
(* Spec: the bridge.  Requests that declare ports arrive, forwarders run,  *)
(* other programs take and free local ports, clients connect, dials        *)
(* succeed or fail, peers close.  The peers write nothing here, so no copy *)
(* task ever holds a chunk and CopyWrite has nothing to do; SpecRelay      *)
(* follows the bytes of one session.                                       *)
(***************************************************************************)
\* the -base flag's default, "/mnt/hgfs/docker/volumes/", shortened
DefaultBase == <<"/", "c", "/">>

\* ServeHTTP on one create request (main.go:70-82, 90): the Director runs, spawning
\* the forwarders, and the transport sends the request on; nothing of it is kept
ServeHTTP(r) ==
    /\ LET res == DirectorResult(r, basePath)
       IN  /\ Len(fw) + Len(res.ports) <= MaxCalls
           /\ fw' = fw \o Spawn(res.ports)
    /\ UNCHANGED <<basePath, hookVars, activeForwards, forwardMutex, portInUse, sess>>

BridgeRequest == \E r \in BridgeRequests : ServeHTTP(r)

Init ==
    /\ basePath = DefaultBase
    /\ InitBridge

Next ==
    \/ BridgeRequest
    \/ \E g \in Goroutines : Lock(g)
    \/ \E g \in Goroutines : Check(g)
    \/ \E g \in Goroutines : UnlockReturn(g)
    \/ \E g \in Goroutines : Set(g)
    \/ \E g \in Goroutines : Unlock(g)
    \/ \E g \in Goroutines : Listen(g)
    \/ \E g \in Goroutines : Accept(g)
    \/ \E g \in Goroutines : AcceptError(g)
    \/ \E p \in Ports : OccupyPort(p)
    \/ \E p \in Ports : ReleasePort(p)
    \/ \E i \in Sessions : DialOK(i)
    \/ \E i \in Sessions : DialFail(i)
    \/ \E i \in Sessions : CloseS(i)
    \/ \E i \in Sessions : CloseC(i)
    \/ \E i \in Sessions, d \in Dirs : PeerClose(i, d)
    \/ \E i \in Sessions, d \in Dirs : CopyRead(i, d)
    \/ \E i \in Sessions, d \in Dirs : Rendezvous(i, d)

Spec == Init /\ [][Next]_vars

(***************************************************************************)
(* SpecRelay: one request declaring one port, one accepted connection, and *)
(* both peers writing up to MaxBytes bytes each.                           *)
(***************************************************************************)
RelayRequest ==
    /\ fw = <<>>
    /\ ServeHTTP(Request(TRUE, JsonBody("canon", PortTree(<<"80">>)),
                         ByteLen(JsonBody("canon", PortTree(<<"80">>)))))

RelayAccept(g) ==
    /\ sess = <<>>
    /\ Accept(g)

InitRelay ==
    /\ basePath = DefaultBase
    /\ InitBridge
    /\ portInUse = {}

NextRelay ==
    \/ RelayRequest
    \/ \E g \in Goroutines : Lock(g)
    \/ \E g \in Goroutines : Check(g)
    \/ \E g \in Goroutines : Set(g)
    \/ \E g \in Goroutines : Unlock(g)
    \/ \E g \in Goroutines : Listen(g)
    \/ \E g \in Goroutines : RelayAccept(g)
    \/ \E i \in Sessions : DialOK(i)
    \/ \E i \in Sessions : DialFail(i)
    \/ \E i \in Sessions : CloseS(i)
    \/ \E i \in Sessions : CloseC(i)
    \/ \E i \in Sessions, d \in Dirs : PeerWrite(i, d)
    \/ \E i \in Sessions, d \in Dirs : PeerClose(i, d)
    \/ \E i \in Sessions, d \in Dirs : CopyRead(i, d)
    \/ \E i \in Sessions, d \in Dirs : CopyWrite(i, d)
    \/ \E i \in Sessions, d \in Dirs : Rendezvous(i, d)

SpecRelay == InitRelay /\ [][NextRelay]_vars

(***************************************************************************)
(* SpecHook: the hook and the bridge side by side.  The Director returns   *)
(* (stage "rewritten"), then the transport forwards the request, while the *)
(* forwarders the Director spawned run on their own; one connection is     *)
(* accepted.  The go statements of line 140 run inside modifyAndExtract,   *)
(* but the rest of the hook reads nothing a forwarder writes, so taking    *)
(* the Director as one step loses no interleaving the request can see.     *)
(***************************************************************************)
HookRequest ==
    /\ stage = "idle"
    /\ \E r \in BridgeRequests : Director(r)

NextHook ==
    \/ HookRequest
    \/ Forward
    \/ \E g \in Goroutines : Lock(g)
    \/ \E g \in Goroutines : Check(g)
    \/ \E g \in Goroutines : UnlockReturn(g)
    \/ \E g \in Goroutines : Set(g)
    \/ \E g \in Goroutines : Unlock(g)
    \/ \E g \in Goroutines : Listen(g)
    \/ \E g \in Goroutines : RelayAccept(g)
    \/ \E p \in Ports : OccupyPort(p)
    \/ \E p \in Ports : ReleasePort(p)
    \/ \E i \in Sessions : DialOK(i)
    \/ \E i \in Sessions : DialFail(i)
    \/ \E i \in Sessions : CloseS(i)
    \/ \E i \in Sessions : CloseC(i)
    \/ \E i \in Sessions, d \in Dirs : PeerClose(i, d)
    \/ \E i \in Sessions, d \in Dirs : CopyRead(i, d)
    \/ \E i \in Sessions, d \in Dirs : Rendezvous(i, d)

SpecHook == Init /\ [][NextHook]_vars

(***************************************************************************)
(* SpecFair: the bridge with one accepted connection, under the scheduling *)
(* the Go runtime gives: a goroutine that can take its next step does take *)
(* it.  A forwarder waiting for the mutex gets it once it stays free, a    *)
(* dial returns (it is bounded by the 5 s of line 205), a deferred close   *)
(* runs, a copy task whose Read can return - the proxy closed the source,  *)
(* the peer closed, or nothing here being written - goes on, and a send on *)
(* done completes when the session is at its receive.  Nothing is assumed  *)
(* of the environment: requests, connections, other programs, peers.       *)
(***************************************************************************)
FwStep(g) ==
    /\ g \in Goroutines
    /\ Lock(g) \/ Check(g) \/ UnlockReturn(g) \/ Set(g) \/ Unlock(g) \/ Listen(g)

SessStep(i) ==
    /\ i \in Sessions
    /\ DialOK(i) \/ DialFail(i) \/ CloseS(i) \/ CloseC(i)

TaskStep(i, d) ==
    /\ i \in Sessions
    /\ CopyRead(i, d) \/ Rendezvous(i, d)

NextFair ==
    \/ BridgeRequest
    \/ \E g \in Goroutines : Lock(g)
    \/ \E g \in Goroutines : Check(g)
    \/ \E g \in Goroutines : UnlockReturn(g)
    \/ \E g \in Goroutines : Set(g)
    \/ \E g \in Goroutines : Unlock(g)
    \/ \E g \in Goroutines : Listen(g)
    \/ \E g \in Goroutines : RelayAccept(g)
    \/ \E g \in Goroutines : AcceptError(g)
    \/ \E p \in Ports : OccupyPort(p)
    \/ \E p \in Ports : ReleasePort(p)
    \/ \E i \in Sessions : DialOK(i)
    \/ \E i \in Sessions : DialFail(i)
    \/ \E i \in Sessions : CloseS(i)
    \/ \E i \in Sessions : CloseC(i)
    \/ \E i \in Sessions, d \in Dirs : PeerClose(i, d)
    \/ \E i \in Sessions, d \in Dirs : CopyRead(i, d)
    \/ \E i \in Sessions, d \in Dirs : Rendezvous(i, d)

Fairness ==
    /\ \A g \in 1..MaxCalls : WF_vars(FwStep(g))
    /\ WF_vars(SessStep(1))
    /\ \A d \in Dirs : WF_vars(TaskStep(1, d))

SpecFair == Init /\ [][NextFair]_vars /\ Fairness

(***************************************************************************)
(* Properties of the bridge (Spec).                                        *)
(***************************************************************************)
\* the startForwarder calls for port p, and those past the test of line 182
Calls(p) == {g \in Goroutines : fw[g].port = p}
Winners(p) == {g \in Calls(p) : fw[g].pc \in {"set", "unlock", "listen", "abandoned", "accept"}}
BindAttempts(p) == {g \in Calls(p) : fw[g].pc \in {"abandoned", "accept"}}
Settled(p) == \A g \in Calls(p) : fw[g].pc \in {"returned", "listen", "abandoned", "accept"}

\* C1: of the calls of startForwarder for one port, however they interleave, at most
\* one passes the registry test-and-set and attempts a bind; once all of them are
\* through the critical section exactly one has passed and the others have
\* returned as no-ops
C1_OneListenerPerPort ==
    \A p \in Ports :
        /\ Cardinality(Winners(p)) <= 1
        /\ Cardinality(BindAttempts(p)) <= 1
        /\ (Calls(p) # {} /\ Settled(p)) =>
              /\ Cardinality(Winners(p)) = 1
              /\ \A g \in Calls(p) \ Winners(p) : fw[g].pc = "returned"

\* two calls for one port: one listens, the other returned
C1_Witness ==
    \E g, h \in Goroutines :
        /\ g # h /\ fw[g].port = fw[h].port
        /\ fw[g].pc = "accept" /\ fw[h].pc = "returned"

\* C2: no step ever takes a port out of the registry
C2_RegistryMonotonic == [][activeForwards \subseteq activeForwards']_vars

\* both ports registered, one bind failed, the other listener has seen a failed dial
\* and a session torn down
C2_Witness ==
    /\ activeForwards = Ports
    /\ \E g \in Goroutines : fw[g].pc = "abandoned"
    /\ \E i \in Sessions : sess[i].dial = "failed" /\ sess[i].pc = "done"
    /\ \E i \in Sessions : sess[i].dial = "ok" /\ sess[i].pc = "done"

C5_FinishOnFirstCopy ==
    \A i \in Sessions :
        sess[i].dial = "ok" =>
            LET handed == sess[i].up.task = "exit" \/ sess[i].down.task = "exit"
            IN  /\ (~sess[i].cOpen \/ ~sess[i].sOpen) => handed
                /\ handed <=> sess[i].pc \in {"closeS", "closeC", "done"}
                /\ sess[i].pc = "done" => (~sess[i].cOpen /\ ~sess[i].sOpen)

\* a finished session whose other copy task (client -> remote) never completed
C5_Witness ==
    \E i \in Sessions :
        /\ sess[i].dial = "ok" /\ sess[i].pc = "done"
        /\ sess[i].down.task = "exit" /\ sess[i].up.task = "read"
        /\ ~sess[i].cOpen /\ ~sess[i].sOpen

\* C6: a session whose dial failed has dialed once, started no copy task and only
\* closes the client connection; its port is still registered and its listener
\* still in the accept loop
C6_DialFailure ==
    \A i \in Sessions :
        sess[i].dial = "failed" =>
            /\ sess[i].dials = 1
            /\ sess[i].up.task = "none" /\ sess[i].down.task = "none"
            /\ ~sess[i].sOpen
            /\ sess[i].pc \in {"closeC", "done"}
            /\ sess[i].pc = "done" => ~sess[i].cOpen
            /\ sess[i].port \in activeForwards
            /\ Bound(sess[i].port)

\* after a failed and finished session the same listener accepted a connection
\* whose own dial succeeded
C6_Witness ==
    \E i, j \in Sessions :
        /\ i < j /\ sess[i].port = sess[j].port
        /\ sess[i].dial = "failed" /\ sess[i].pc = "done" /\ ~sess[i].cOpen
        /\ sess[j].dial = "ok" /\ sess[j].dials = 1

\* C17: a forwarder that has reached the accept loop stays in it, still bound,
\* through every step of the system (accept errors included), and whatever its
\* sessions are doing it can accept the next connection
C17_AcceptLoopForever ==
    /\ [](\A g \in Goroutines :
             (fw[g].pc = "accept" /\ Len(sess) < MaxSessions) => ENABLED Accept(g))
    /\ [][\A g \in Goroutines : fw[g].pc = "accept" => fw'[g] = fw[g]]_vars

\* a connection was accepted while an earlier session of the same listener was
\* still dialing, and is itself waiting on its copy tasks
C17_Witness ==
    \E g \in Goroutines, i, j \in Sessions :
        /\ fw[g].pc = "accept"
        /\ i < j /\ sess[i].port = fw[g].port /\ sess[j].port = fw[g].port
        /\ sess[i].pc = "dial" /\ sess[j].pc = "wait"

(***************************************************************************)
(* Properties of the bridge under fair scheduling (SpecFair).              *)
(***************************************************************************)
\* C18: forwardMutex is held exactly by a forwarder between its Lock and its
\* Unlock - never by one that is binding, listening or returned, and so never
\* across a session's dial or copy - and every call that waits for the lock gets
\* it and leaves the critical section, as a no-op or towards its bind
C18_LockOnlyForTestAndSet ==
    /\ [](\A g \in Goroutines :
             forwardMutex = g <=> fw[g].pc \in {"check", "unlockRet", "set", "unlock"})
    /\ [](forwardMutex \in {0} \cup Goroutines)
    /\ \A g \in 1..MaxCalls :
          (g \in Goroutines /\ fw[g].pc = "lock")
              ~> (g \in Goroutines
                  /\ fw[g].pc \in {"returned", "listen", "abandoned", "accept"})

\* a call on the already-member path holds the lock while the first call's
\* listener is accepting and its session is waiting on its copy tasks
C18_Witness ==
    \E g, h \in Goroutines, i \in Sessions :
        /\ forwardMutex = g /\ fw[g].pc = "unlockRet"
        /\ fw[h].pc = "accept" /\ fw[h].port = fw[g].port
        /\ sess[i].pc = "wait"

\* C19 as stated: once a session whose dial succeeded has finished - a copy task
\* completed, both connections closed - each of its two copy tasks is eventually
\* gone
C19_Original ==
    \A d \in Dirs :
        (1 \in Sessions /\ sess[1].dial = "ok" /\ sess[1].pc = "done")
            ~> (1 \in Sessions /\ Dir(1, d).task = "exit")

\* the calls for port p that have registered it and are on their way to, or
\* past, their bind
Owners(p) == {g \in Calls(p) : fw[g].pc \in {"unlock", "listen", "abandoned", "accept"}}

\* C20: a bound listener's port is in the registry; a port is in the registry
\* exactly when one call has put it there, and that call makes the port's one bind
\* attempt: the attempt does come, and its outcome - a bound listener or an
\* abandoned attempt - never changes afterwards
C20_RegisteredPortsGetOneAttempt ==
    /\ [](\A p \in Ports : Bound(p) => p \in activeForwards)
    /\ [](\A p \in Ports :
             /\ p \in activeForwards <=> Cardinality(Owners(p)) = 1
             /\ BindAttempts(p) \subseteq Owners(p))
    /\ \A p \in Ports : (p \in activeForwards) ~> (Cardinality(BindAttempts(p)) = 1)
    /\ [][\A g \in Goroutines :
             fw[g].pc \in {"abandoned", "accept"} => fw'[g] = fw[g]]_vars

\* both ports registered: one bind ended in a listener, the other was abandoned
C20_Witness ==
    /\ activeForwards = Ports
    /\ \E g, h \in Goroutines :
          /\ fw[g].pc = "accept" /\ fw[h].pc = "abandoned"
          /\ fw[g].port # fw[h].port

(***************************************************************************)
(* Properties of the relay (SpecRelay).                                    *)
(***************************************************************************)
\* the first n bytes a peer writes
Ramp(n) == [k \in 1..n |-> k]

IsPrefix(a, b) == Len(a) <= Len(b) /\ a = SubSeq(b, 1, Len(a))

\* C4 as stated: all the bytes a peer wrote in a session have reached the other
\* peer, identical and in order, when the session is over
C4_Original ==
    \A i \in Sessions :
        (sess[i].dial = "ok" /\ sess[i].pc = "done") =>
            /\ sess[i].up.got = Ramp(sess[i].up.w)
            /\ sess[i].down.got = Ramp(sess[i].down.w)

\* C4 as amended: what has reached a peer is at every moment a prefix of what the
\* other peer wrote (identical bytes, in the order sent, none twice), and the chunk
\* a copy task has read but not yet written continues that prefix
C4_InOrderPrefix ==
    \A i \in Sessions :
        /\ IsPrefix(sess[i].up.got \o sess[i].up.buf, Ramp(sess[i].up.w))
        /\ IsPrefix(sess[i].down.got \o sess[i].down.buf, Ramp(sess[i].down.w))

\* both directions have carried MaxBytes bytes
C4_Witness ==
    \E i \in Sessions :
        /\ sess[i].up.got = Ramp(MaxBytes)
        /\ sess[i].down.got = Ramp(MaxBytes)

(***************************************************************************)
(* Properties of the rewrite (SpecRewrite).                                *)
(***************************************************************************)
\* the hook ran modifyAndExtract on a body it could read
Handled == stage \in {"rewritten", "resent"} /\ reqIn.create
           /\ reqIn.body = "stream" /\ ~reqIn.readErr

NotJsonObject(b) == b.fmt \in {"garbage", "scalar", "null"}

\* json.Unmarshal accepts the body: an object, or the JSON null
Parseable(b) == b.fmt \in {"null", "canon", "loose"}

\* C7: a body that does not parse as a JSON object leaves the hook byte for byte
\* as it came, in a readable body, with the modified flag unset and no
\* startForwarder goroutine spawned
C7_NonJsonPassthrough ==
    (Handled /\ NotJsonObject(reqIn.bytes)) =>
        /\ reqOut.body = "buffer"
        /\ reqOut.bytes = reqIn.bytes
        /\ ~modified
        /\ fw = <<>>

C7_Witness ==
    /\ stage = "rewritten" /\ Handled
    /\ reqIn.bytes.fmt = "garbage" /\ reqIn.bytes.raw = 2
    /\ reqOut.bytes = reqIn.bytes

\* some element of the tree came out different from what went in
TreeChanged == reqOut.bytes.tree # reqIn.bytes.tree

\* C8: for a parseable payload the outgoing body is the re-serialized tree exactly
\* when some bind or environment element was rewritten (and then the flag is
\* set); otherwise it is the original bytes and the flag is unset
C8_ReserializeIffRewritten ==
    (Handled /\ Parseable(reqIn.bytes)) =>
        /\ modified <=> TreeChanged
        /\ TreeChanged => reqOut.bytes = Marshal(reqOut.bytes.tree)
        /\ ~TreeChanged => reqOut.bytes = reqIn.bytes

C8_Witness ==
    /\ stage = "rewritten" /\ Handled
    /\ reqIn.bytes.fmt = "loose" /\ modified
    /\ reqOut.bytes.fmt = "canon" /\ TreeChanged
    /\ fw # <<>>

\* a payload that only declares ports goes out as the bytes that came in
C8_WitnessPortsOnly ==
    /\ stage = "rewritten" /\ Handled
    /\ reqIn.bytes.fmt = "loose" /\ ~modified /\ fw # <<>>
    /\ reqOut.bytes = reqIn.bytes

\* b with its trailing slashes made exactly one
RECURSIVE TrimSlashes(_)
TrimSlashes(b) == IF HasSuffixSlash(b) THEN TrimSlashes(SubSeq(b, 1, Len(b) - 1)) ELSE b
OneSlash(b) == Append(TrimSlashes(b), "/")

\* b, with a slash added when it ends in none
SlashEnded(b) == IF HasSuffixSlash(b) THEN b ELSE Append(b, "/")

\* the request held one bind element, and it matched the bind pattern
OneBindMatched ==
    /\ stage = "rewritten" /\ Handled /\ ~NotJsonObject(reqIn.bytes)
    /\ reqIn.bytes.tree.hc = "obj" /\ reqIn.bytes.tree.binds.kind = "list"
    /\ Len(reqIn.bytes.tree.binds.elems) = 1
    /\ reqIn.bytes.tree.binds.elems[1].str
    /\ bindRegex(reqIn.bytes.tree.binds.elems[1].s).ok

\* the request held one environment element KEY=VALUE whose value matched
OneEnvMatched ==
    /\ stage = "rewritten" /\ Handled /\ ~NotJsonObject(reqIn.bytes)
    /\ reqIn.bytes.tree.env.kind = "list"
    /\ Len(reqIn.bytes.tree.env.elems) = 1
    /\ reqIn.bytes.tree.env.elems[1].str
    /\ Len(SplitN2(reqIn.bytes.tree.env.elems[1].s)) = 2
    /\ envPathRegex(SplitN2(reqIn.bytes.tree.env.elems[1].s)[2]).ok

\* what the hook made of drive d and sub-path p is pre(basePath) + upper(d) + "/" +
\* normalize(p), for both kinds of element
TranslatedAs(pre(_)) ==
    /\ OneBindMatched =>
         LET m == bindRegex(reqIn.bytes.tree.binds.elems[1].s)
         IN  reqOut.bytes.tree.binds.elems[1].s =
                 pre(basePath) \o ToUpper(m.g1) \o <<"/">> \o ReplaceAll(m.g2, BS, "/")
                     \o m.g3
    /\ OneEnvMatched =>
         LET kv == SplitN2(reqIn.bytes.tree.env.elems[1].s)
             m == envPathRegex(kv[2])
         IN  reqOut.bytes.tree.env.elems[1].s =
                 kv[1] \o <<"=">> \o pre(basePath) \o ToUpper(m.g1) \o <<"/">>
                     \o ReplaceAll(m.g2, BS, "/")

\* C9 as stated: translate(b, d, p) = b' + upper(d) + "/" + normalize(p) where b' is
\* b with exactly one trailing slash
C9_Original == TranslatedAs(OneSlash)

\* C9 as amended: translate(b, d, p) = b' + upper(d) + "/" + normalize(p) where b' is
\* b itself when b ends in a slash, however many, and b + "/" otherwise
C9_Translate == TranslatedAs(SlashEnded)

C9_Witness ==
    /\ OneBindMatched
    /\ ~HasSuffixSlash(basePath)
    /\ reqIn.bytes.tree.binds.elems[1].s = <<"c", ":", BS, "c", BS, "c">>
    /\ reqOut.bytes.tree.binds.elems[1].s = basePath \o <<"/", "C", "/", "c", "/", "c">>

\* s begins with a letter, a colon and a slash or backslash
LetterColonSlash(s) ==
    Len(s) >= 3 /\ s[1] \in Letters /\ s[2] = ":" /\ s[3] \in {BS, "/"}

\* C10 as stated: whatever the base, rewriting a body the proxy has already rewritten
\* changes nothing
C10_Original == (stage = "resent" /\ Handled) => (~modified /\ reqOut.bytes = reqIn.bytes)

\* C10 as amended: when the base, completed with its slash, does not itself begin
\* with a letter, a colon and a slash or backslash, rewriting a body the proxy has
\* already rewritten changes nothing
C10_Idempotent ==
    (stage = "resent" /\ Handled /\ ~LetterColonSlash(SlashEnded(basePath))) =>
        (~modified /\ reqOut.bytes = reqIn.bytes)

\* the resent body holds an element the first pass translated
C10_Witness ==
    /\ stage = "resent" /\ Handled /\ ~modified
    /\ ~LetterColonSlash(SlashEnded(basePath))
    /\ reqIn.bytes.fmt = "canon"
    /\ reqIn.bytes.tree.binds.kind = "list"
    /\ Len(reqIn.bytes.tree.binds.elems) = 1
    /\ reqIn.bytes.tree.binds.elems[1].s =
           SlashEnded(basePath) \o <<"C", "/", "c", ":", "/">>

\* the parts of a bind element s that begins with a drive prefix: the sub-path runs
\* up to the first colon, the trailing suffix is all the text after it
BindSubPath(s) == SubSeq(From(s, 4), 1, RunLen(From(s, 4), {":"}))
BindSuffix(s) == From(s, 4 + Len(BindSubPath(s)))
BindMatches(s) == LetterColonSlash(s) /\ BindSubPath(s) # <<>>

\* the request's Binds list was walked by the hook
BindsWalked ==
    /\ Handled /\ Parseable(reqIn.bytes)
    /\ reqIn.bytes.tree.hc = "obj" /\ reqIn.bytes.tree.binds.kind = "list"

\* C11 as stated: every string element of Binds that matches the pattern goes out
\* as translate(base, drive, subPath) followed by all the text that followed the
\* sub-path, verbatim; every other element goes out as it came
C11_Original ==
    BindsWalked =>
        \A i \in 1..Len(reqIn.bytes.tree.binds.elems) :
            LET e == reqIn.bytes.tree.binds.elems[i]
                o == reqOut.bytes.tree.binds.elems[i]
            IN  IF e.str /\ BindMatches(e.s)
                THEN o = StrElem(translateWinPath(basePath, <<e.s[1]>>, BindSubPath(e.s))
                                 \o BindSuffix(e.s))
                ELSE o = e

\* the parts of an environment element s: KEY is the text before the first "=",
\* VALUE the text after it, and the sub-path of a matching VALUE is all of it after
\* the drive prefix
EnvHasValue(s) == RunLen(s, {"="}) < Len(s)
EnvKey(s) == SubSeq(s, 1, RunLen(s, {"="}))
EnvValue(s) == From(s, RunLen(s, {"="}) + 2)

\* the request's Env list was walked by the hook
EnvWalked ==
    /\ Handled /\ Parseable(reqIn.bytes)
    /\ reqIn.bytes.tree.env.kind = "list"

\* C12 as stated: every element KEY=VALUE of Env whose VALUE matches the pattern
\* goes out as KEY=translate(base, drive, subPath), KEY unchanged; every other
\* element goes out as it came
C12_Original ==
    EnvWalked =>
        \A i \in 1..Len(reqIn.bytes.tree.env.elems) :
            LET e == reqIn.bytes.tree.env.elems[i]
                o == reqOut.bytes.tree.env.elems[i]
            IN  IF e.str /\ EnvHasValue(e.s) /\ LetterColonSlash(EnvValue(e.s))
                THEN o = StrElem(EnvKey(e.s) \o <<"=">>
                                 \o translateWinPath(basePath, <<EnvValue(e.s)[1]>>,
                                                     From(EnvValue(e.s), 4)))
                ELSE o = e

\* tree b has the fields of tree a, of the same kinds, its lists as long as a's
\* and its port bindings a's own
SameShape(a, b) ==
    /\ a.hc = b.hc /\ a.pb = b.pb
    /\ a.binds.kind = b.binds.kind /\ Len(a.binds.elems) = Len(b.binds.elems)
    /\ a.env.kind = b.env.kind /\ Len(a.env.elems) = Len(b.env.elems)

\* the hook has run on a qualifying request
Qualified == stage \in {"rewritten", "resent"} /\ reqIn.create

\* the outgoing request carries the whole payload: the bytes that came in, or the
\* serialization of the (partly or fully) rewritten tree
CarriesPayload ==
    IF reqIn.body = "nil" THEN reqOut = reqIn
    ELSE /\ reqOut.body = "buffer"
         /\ \/ reqOut.bytes = reqIn.bytes
            \/ /\ Parseable(reqIn.bytes)
               /\ reqOut.bytes = Marshal(reqOut.bytes.tree)
               /\ SameShape(reqIn.bytes.tree, reqOut.bytes.tree)

\* C13 as stated: whatever fails in modifyAndExtract - the read of the body, the
\* parse, a field absent or of the wrong type - the hook returns, the request can
\* be forwarded and it carries the original payload or a rewritten one, never a
\* truncated or empty replacement
C13_Original == Qualified => (ENABLED Forward /\ CarriesPayload)

\* the binding descriptors of tree t that carry a string HostPort, as <<entry,
\* position>> pairs: HostConfig an object, PortBindings a map, the entry a list,
\* the descriptor an object
Carriers(t) ==
    IF t.hc = "obj" /\ t.pb.kind = "map"
    THEN {c \in (DOMAIN t.pb.lists) \X (1..MaxDescriptors + 2) :
             /\ t.pb.lists[c[1]].kind = "list"
             /\ c[2] \in DOMAIN t.pb.lists[c[1]].descs
             /\ t.pb.lists[c[1]].descs[c[2]].kind = "map"
             /\ t.pb.lists[c[1]].descs[c[2]].hp = "str"}
    ELSE {}

\* C14: when the hook has handled a parseable payload, the startForwarder calls it
\* issued are as many as the descriptors carrying a string HostPort, and for every
\* port as many as the descriptors naming it, whether or not anything was rewritten
C14_OneCallPerDescriptor ==
    (stage = "rewritten" /\ Handled /\ Parseable(reqIn.bytes)) =>
        LET t == reqIn.bytes.tree
        IN  /\ Len(fw) = Cardinality(Carriers(t))
            /\ \A p \in Ports :
                  Cardinality(Calls(p)) =
                      Cardinality({c \in Carriers(t) :
                                      t.pb.lists[c[1]].descs[c[2]].port = p})

\* two descriptors naming the same port and nothing to rewrite: two calls
C14_Witness ==
    /\ stage = "rewritten" /\ Handled /\ ~modified
    /\ Cardinality(Carriers(reqIn.bytes.tree)) = 2
    /\ Len(fw) = 2 /\ fw[1].port = fw[2].port

\* the body could be read and json.Unmarshal refused it (lines 109-113)
ParseFailed == reqIn.body = "stream" /\ ~reqIn.readErr /\ ~Parseable(reqIn.bytes)

\* C16 as stated: when a request leaves the hook on the modified, the unmodified or
\* the parse-failure path, its declared content length is the byte length of its
\* outgoing body
C16_Original ==
    (Qualified /\ ~reqIn.readErr) => reqOut.ContentLength = ByteLen(reqOut.bytes)

\* C16 as amended: on the modified and the unmodified path the declared content
\* length is the byte length of the outgoing body; on the parse-failure path the
\* body and the declared length both leave as they came, so the length is the
\* body's when the request declared one and stays undeclared (-1) when it did not
C16_LengthConsistent ==
    (Qualified /\ ~reqIn.readErr) =>
        IF ParseFailed
        THEN /\ reqOut.bytes = reqIn.bytes
             /\ reqOut.ContentLength = reqIn.ContentLength
             /\ reqOut.ContentLength \in {-1, ByteLen(reqOut.bytes)}
        ELSE reqOut.ContentLength = ByteLen(reqOut.bytes)

\* a chunked request was rewritten and left with the length of its new body
C16_Witness ==
    /\ stage = "rewritten" /\ Handled /\ modified
    /\ reqIn.ContentLength = -1
    /\ reqOut.bytes # reqIn.bytes
    /\ reqOut.ContentLength = ByteLen(reqOut.bytes)

(***************************************************************************)
(* Properties of the hook beside the bridge (SpecHook).                    *)
(***************************************************************************)
\* C15: once the hook has returned, the request can be forwarded whatever the
\* forwarders it spawned have done so far - not started, in the critical section,
\* about to bind, failed to bind, bound, accepting or relaying
C15_HookNeverWaits == stage = "rewritten" => ENABLED Forward

\* the request has been forwarded and none of its forwarders has taken a step
C15_Witness ==
    /\ stage = "idle"
    /\ fw # <<>>
    /\ \A g \in Goroutines : fw[g].pc = "lock"
    /\ activeForwards = {}

====
